---- MODULE Spec2Model ----
(***************************************************************************)
(* A model of mossum (src/mossum/mossum.py): the match filter, the merge   *)
(* of several Moss result pages, anonymization, the graph image and the    *)
(* textual report, as main() runs them.                                    *)
(*                                                                         *)
(* File and result names are strings in the program.  Here a name is a     *)
(* natural number standing for the name's rank in Python's string order,   *)
(* so that sorted() on names is the order of the numbers.                  *)
(***************************************************************************)
EXTENDS Integers, Sequences, FiniteSets, TLC

\* ---------------------------------------------------------------- bounds
\* Number of distinct file names a page may mention.
MaxName == 2
\* Total number of table rows over all fetched pages.
MaxRows == 3
\* Total number of table rows over all pages in the anonymization runs.
MaxAnonRows == 2
\* Largest --min-matches tried.
MaxMinMatches == 3

Names == 1..MaxName
\* Names the name generator (Faker) can hand out; as many as there are names.
FakeNames == (MaxName + 1)..(2 * MaxName)
\* Titles of result pages (Results.name).
ResultNames == {1, 2}

VARIABLES args, urls, all_res, merged, graphs, report, pc, idx, parsed

vars == <<args, urls, all_res, merged, graphs, report, pc, idx, parsed>>

\* ------------------------------------------------------------ data model
\* class File
File(name, percent) == [name |-> name, percent |-> percent]

\* Match.percent (property)
MatchPercent(m) ==
    IF m.first.percent >= m.second.percent THEN m.first.percent ELSE m.second.percent

\* class Match
Match(first, second, lines, url) ==
    [first |-> first, second |-> second, lines |-> lines, url |-> url]

\* class Results
Results(name, matches) == [name |-> name, matches |-> matches]

\* An option of argparse that was not given (default=None).
None == [isSet |-> FALSE, names |-> {}]

\* Filter.__init__: set(getattr(args, f)) for an option that was given.
FilterSet(S) == [isSet |-> TRUE, names |-> S]

\* ------------------------------------------------------------ the filter
\* Variants of the code that the claims below must tell from it: a rule
\* demanding both percentages, a missing filterx rule, an inverted filterxi
\* rule.
IncludeBothPercent(a, match) ==
    LET first == match.first.name
        second == match.second.name
    IN  IF a.filter.isSet /\ (first \notin a.filter.names \/ second \notin a.filter.names)
        THEN FALSE
        ELSE IF a.filteri.isSet /\ (first \notin a.filteri.names /\ second \notin a.filteri.names)
        THEN FALSE
        ELSE IF a.filterx.isSet /\ (first \in a.filterx.names /\ second \in a.filterx.names)
        THEN FALSE
        ELSE IF a.filterxi.isSet /\ (first \in a.filterxi.names \/ second \in a.filterxi.names)
        THEN FALSE
        ELSE match.lines > a.min_lines
             /\ (match.first.percent > a.min_percent /\ match.second.percent > a.min_percent)

IncludeXIgnored(a, match) ==
    LET first == match.first.name
        second == match.second.name
    IN  IF a.filter.isSet /\ (first \notin a.filter.names \/ second \notin a.filter.names)
        THEN FALSE
        ELSE IF a.filteri.isSet /\ (first \notin a.filteri.names /\ second \notin a.filteri.names)
        THEN FALSE
        ELSE IF a.filterxi.isSet /\ (first \in a.filterxi.names \/ second \in a.filterxi.names)
        THEN FALSE
        ELSE match.lines > a.min_lines
             /\ (match.first.percent > a.min_percent \/ match.second.percent > a.min_percent)

IncludeXiFlipped(a, match) ==
    LET first == match.first.name
        second == match.second.name
    IN  IF a.filter.isSet /\ (first \notin a.filter.names \/ second \notin a.filter.names)
        THEN FALSE
        ELSE IF a.filteri.isSet /\ (first \notin a.filteri.names /\ second \notin a.filteri.names)
        THEN FALSE
        ELSE IF a.filterx.isSet /\ (first \in a.filterx.names /\ second \in a.filterx.names)
        THEN FALSE
        ELSE IF a.filterxi.isSet /\ (first \notin a.filterxi.names /\ second \notin a.filterxi.names)
        THEN FALSE
        ELSE match.lines > a.min_lines
             /\ (match.first.percent > a.min_percent \/ match.second.percent > a.min_percent)

\* Filter.include(match), with the run's options a
Include(a, match) ==
    LET first == match.first.name
        second == match.second.name
    IN  IF a.filter.isSet /\ (first \notin a.filter.names \/ second \notin a.filter.names)
        THEN FALSE
        ELSE IF a.filteri.isSet /\ (first \notin a.filteri.names /\ second \notin a.filteri.names)
        THEN FALSE
        ELSE IF a.filterx.isSet /\ (first \in a.filterx.names /\ second \in a.filterx.names)
        THEN FALSE
        ELSE IF a.filterxi.isSet /\ (first \in a.filterxi.names \/ second \in a.filterxi.names)
        THEN FALSE
        ELSE match.lines > a.min_lines
             /\ (match.first.percent > a.min_percent \/ match.second.percent > a.min_percent)

\* list(filter(fil.include, matches))
RECURSIVE FilterMatches(_, _)
FilterMatches(a, matches) ==
    IF matches = <<>> THEN <<>>
    ELSE LET rest == FilterMatches(a, Tail(matches))
         IN  IF Include(a, Head(matches)) THEN <<Head(matches)>> \o rest ELSE rest

\* ------------------------------------------------------------- get_results
\* get_results(moss_url): the page's title and its table rows, already cut
\* into Files by parse_col, then filtered by Filter.include.
GetResultsOf(a, page) == Results(page.name, FilterMatches(a, page.rows))

\* ------------------------------------------------------------------ merge
\* A Match object is referred to by its place <<i, j>>: match j of all_res[i].
\* The merged Results holds the same Match objects as all_res, not copies.
Deref(results, ref) == results[ref[1]].matches[ref[2]]

\* list(chain(*map(lambda x: x.matches, results)))
RECURSIVE Chain(_, _)
Chain(results, i) ==
    IF i > Len(results) THEN <<>>
    ELSE [j \in 1..Len(results[i].matches) |-> <<i, j>>] \o Chain(results, i + 1)

\* Variant: the pair as given, not sorted.
PairKeyUnsorted(match) == <<match.first.name, match.second.name>>

\* tuple(sorted([match.first.name, match.second.name]))
PairKey(match) ==
    IF match.first.name <= match.second.name
    THEN <<match.first.name, match.second.name>>
    ELSE <<match.second.name, match.first.name>>

\* merge_filter(matches)
MergeFilter(results, matches, min_matches) ==
    LET pairs == [k \in 1..Len(matches) |-> PairKey(Deref(results, matches[k]))]
        Count(p) == Cardinality({k \in DOMAIN pairs : pairs[k] = p})
        intereseting == {pairs[k] : k \in {n \in DOMAIN pairs : Count(pairs[n]) >= min_matches}}
        Keep(ref) == PairKey(Deref(results, ref)) \in intereseting
    IN  SelectSeq(matches, Keep)

\* merge_results(results); the name '+'.join(...) is kept as the list of names
MergeResults(results, min_matches) ==
    Results([i \in 1..Len(results) |-> results[i].name],
            MergeFilter(results, Chain(results, 1), min_matches))

\* ------------------------------------------------------------ anonymize
\* random_names(length): a set of `length` distinct generated names
RandomNames(length) == {S \in SUBSET FakeNames : Cardinality(S) = length}

\* the names of the matches: the set s of anonymize
NamesOf(results, matches) ==
    {Deref(results, matches[k]).first.name : k \in 1..Len(matches)}
    \cup {Deref(results, matches[k]).second.name : k \in 1..Len(matches)}

\* dict(zip(s, random_names(len(s)))): sets are zipped in no particular order
NewNames(s) ==
    {f \in [s -> FakeNames] :
        /\ {f[n] : n \in s} \in RandomNames(Cardinality(s))
        /\ \A n1, n2 \in s : f[n1] = f[n2] => n1 = n2}

\* anonymize(matches), second loop: the Match objects are renamed in place
Renamed(results, matches, new_names) ==
    LET hit(i, j) == \E k \in 1..Len(matches) : matches[k] = <<i, j>>
        ren(m) == [m EXCEPT !.first.name = new_names[m.first.name],
                            !.second.name = new_names[m.second.name]]
    IN  [i \in 1..Len(results) |->
            [results[i] EXCEPT !.matches =
                [j \in 1..Len(results[i].matches) |->
                    IF hit(i, j) THEN ren(results[i].matches[j])
                    ELSE results[i].matches[j]]]]

\* ------------------------------------------------------------- link_color
\* The hex digits of Python's hex().
HexDigit == <<"0", "1", "2", "3", "4", "5", "6", "7", "8", "9", "a", "b", "c", "d", "e", "f">>

\* hex(n)[2:] of an integer: hex(-5) is '-0x5', of which [2:] is 'x5'
RECURSIVE HexTail(_)
HexTail(n) ==
    IF n < 0 THEN <<"x">> \o HexTail(-n)
    ELSE IF n < 16 THEN <<HexDigit[n + 1]>>
    ELSE HexTail(n \div 16) \o <<HexDigit[(n % 16) + 1]>>

\* str.zfill(2)
Zfill2(str) == IF Len(str) < 2 THEN <<"0">> \o str ELSE str

\* high = 0xE9, 0x01, 0x01 and low = 0xFF, 0xE3, 0x05
high == <<233, 1, 1>>
low == <<255, 227, 5>>

\* The ratio link_color interpolates with, as the fraction <<num, den>>, for a
\* ratio of percent/100 (image passes m.percent / 100).
\* (Variant: the ratio without the renormalisation.)
RatioUnnormalized(min_percent, percent) == <<percent, 100>>

RatioOf(min_percent, percent) ==
    IF min_percent # 100
    THEN <<percent - min_percent, 100 - min_percent>>
    ELSE <<percent, 100>>

\* int(h * ratio + l * (1 - ratio)) for ratio = num/den, in double arithmetic.
\* With ratio exactly 0.0 or 1.0 the sum is l or h exactly.  Otherwise the
\* double is within rounding of the exact value (h*num + l*(den-num))/den; it
\* truncates to the exact value's integer part unless the exact value is an
\* integer k, where rounding may leave the double just under k.
Channel(h, l, ratio) ==
    LET num == ratio[1]
        den == ratio[2]
        top == h * num + l * (den - num)
        trunc == IF top >= 0 THEN top \div den ELSE -((-top) \div den)
    IN  IF num = 0 THEN {l}
        ELSE IF num = den THEN {h}
        ELSE IF top % den = 0
             THEN (IF top > 0 THEN {trunc - 1, trunc}
                   ELSE IF top < 0 THEN {trunc, trunc + 1} ELSE {0})
        ELSE {trunc}

\* link_color(ratio): the colours the build can produce for percent/100
LinkColor(min_percent, percent) ==
    LET ratio == RatioOf(min_percent, percent)
    IN  {<<"#">> \o Zfill2(HexTail(c1)) \o Zfill2(HexTail(c2)) \o Zfill2(HexTail(c3)) :
            c1 \in Channel(high[1], low[1], ratio),
            c2 \in Channel(high[2], low[2], ratio),
            c3 \in Channel(high[3], low[3], ratio)}

\* ------------------------------------------------------------------ image
\* Variant: show_loops ignored.
EdgeWantedNoLoops(a, m) == m.first.name # m.second.name

\* image, line 248: whether the match becomes an edge of the graph
EdgeWanted(a, m) == m.first.name # m.second.name \/ a.show_loops

\* image(results): the possible lists of edges handed to pydot for the matches
\* from position k on (one colour per match out of those of link_color)
RECURSIVE Edges(_, _, _)
Edges(a, matches, k) ==
    IF k > Len(matches) THEN {<<>>}
    ELSE LET m == matches[k]
             rest == Edges(a, matches, k + 1)
         IN  IF EdgeWanted(a, m)
             THEN {<<[first |-> m.first.name, second |-> m.second.name,
                      color |-> c, url |-> m.url]>> \o r :
                        c \in LinkColor(a.min_percent, MatchPercent(m)), r \in rest}
             ELSE rest

\* ------------------------------------------------------------ the report
\* line 173: the key of the dictionary pairs
ReportKey(match) == <<match.first.name, match.second.name>>

\* lines 170-173: pairs, as the list of its items in insertion order; an item
\* is the key and the list of (res.name, match) appended to it
RECURSIVE GroupPairs(_, _, _)
GroupPairs(pairs, results, refs) ==
    IF refs = <<>> THEN pairs
    ELSE LET ref == Head(refs)
             key == ReportKey(Deref(results, ref))
             entry == [name |-> results[ref[1]].name, match |-> ref]
             at == {g \in 1..Len(pairs) : pairs[g].pair = key}
         IN  IF at = {}
             THEN GroupPairs(Append(pairs, [pair |-> key, entries |-> <<entry>>]),
                             results, Tail(refs))
             ELSE GroupPairs([g \in 1..Len(pairs) |->
                                IF g \in at
                                THEN [pairs[g] EXCEPT !.entries = Append(@, entry)]
                                ELSE pairs[g]],
                             results, Tail(refs))

\* Python's order of lists of names: lexicographic, a proper prefix first
RECURSIVE ListLess(_, _)
ListLess(x, y) ==
    IF y = <<>> THEN FALSE
    ELSE IF x = <<>> THEN TRUE
    ELSE IF Head(x) # Head(y) THEN Head(x) < Head(y)
    ELSE ListLess(Tail(x), Tail(y))

\* sorted() of a list of names
RECURSIVE SortedNames(_)
SortedNames(names) ==
    IF names = <<>> THEN <<>>
    ELSE LET rest == SortedNames(Tail(names))
             n == Head(names)
             before == SelectSeq(rest, LAMBDA x : x <= n)
             after == SelectSeq(rest, LAMBDA x : x > n)
         IN  before \o <<n>> \o after

\* line 183: key=lambda x: (len(x[1]), sorted(map(lambda x: x[0], x[1])))
GroupSortKey(item) ==
    <<Len(item.entries),
      SortedNames([k \in 1..Len(item.entries) |-> item.entries[k].name])>>

\* Variant: the count ignored.
KeyLessByNamesOnly(k1, k2) == ListLess(k1[2], k2[2])

\* Python's order of the key tuples (count, names)
KeyLess(k1, k2) ==
    \/ k1[1] < k2[1]
    \/ k1[1] = k2[1] /\ ListLess(k1[2], k2[2])

\* sorted(pairs.items(), key=..., reverse=True): descending and stable, so an
\* item goes after every item already placed whose key is not smaller
RECURSIVE SortedItems(_)
SortedItems(items) ==
    IF items = <<>> THEN <<>>
    ELSE LET n == Len(items)
             front == SortedItems(SubSeq(items, 1, n - 1))
             last == items[n]
             keep == {k \in 1..Len(front) :
                        ~KeyLess(GroupSortKey(front[k]), GroupSortKey(last))}
             cut == IF keep = {} THEN 0 ELSE CHOOSE k \in keep : \A j \in keep : j <= k
         IN  SubSeq(front, 1, cut) \o <<last>> \o SubSeq(front, cut + 1, Len(front))

\* line 185, sorted(matches) of (name, match) tuples: tuples with the same name
\* are ordered by their Match objects, which define no order (TypeError).  A
\* sort compares every two tuples that end up adjacent, so it raises exactly
\* when two tuples of the list share their name.
EntriesComparable(entries) ==
    \A k1, k2 \in 1..Len(entries) :
        k1 # k2 => entries[k1].name # entries[k2].name

\* sorted(matches) when it does not raise: by result name
RECURSIVE SortedEntries(_)
SortedEntries(entries) ==
    IF entries = <<>> THEN <<>>
    ELSE LET rest == SortedEntries(Tail(entries))
             e == Head(entries)
             before == SelectSeq(rest, LAMBDA x : x.name < e.name)
             after == SelectSeq(rest, LAMBDA x : x.name >= e.name)
         IN  before \o <<e>> \o after

\* lines 181-188: what is written to the report file, group by group; the
\* header of a group is written before its entries are sorted
RECURSIVE WriteGroups(_, _, _)
WriteGroups(written, results, items) ==
    IF items = <<>> THEN [written |-> written, error |-> FALSE]
    ELSE LET item == Head(items)
         IN  IF ~EntriesComparable(item.entries)
             THEN [written |-> Append(written, [pair |-> item.pair, lines |-> <<>>]),
                   error |-> TRUE]
             ELSE LET sorted == SortedEntries(item.entries)
                      lines == [k \in 1..Len(sorted) |->
                                  [name |-> sorted[k].name,
                                   url |-> Deref(results, sorted[k].match).url]]
                  IN  WriteGroups(Append(written, [pair |-> item.pair, lines |-> lines]),
                                  results, Tail(items))

\* generate_report(results)
GenerateReportOf(results) ==
    LET pairs == GroupPairs(<<>>, results, Chain(results, 1))
        out == WriteGroups(<<>>, results, SortedItems(pairs))
    IN  [pairs |-> pairs, written |-> out.written, error |-> out.error]

\* ------------------------------------------------------------------ main
\* The local variable merged before merge_results has run, and the report
\* before generate_report has run.
NoResults == Results(<<>>, <<>>)
NoReport == [pairs |-> <<>>, written |-> <<>>, error |-> FALSE]

\* Where main goes after the pages are fetched (line 282) and after an image
\* (line 293).
AfterFetch(a) == IF a.merge THEN "merge" ELSE IF a.anonymize THEN "anonymize" ELSE "image"
AfterImages(a) == IF a.report THEN "report" ELSE "done"

\* main, lines 277-279: res = get_results(x); all_res.append(res)
GetResults ==
    /\ pc = "fetch"
    /\ Len(all_res) < Len(urls)
    /\ all_res' = Append(all_res, GetResultsOf(args, urls[Len(all_res) + 1]))
    /\ parsed' = all_res'
    /\ pc' = IF Len(all_res') = Len(urls) THEN AfterFetch(args) ELSE "fetch"
    /\ UNCHANGED <<args, urls, merged, graphs, report, idx>>

\* main, line 283: merged = merge_results(all_res)
Merge ==
    /\ pc = "merge"
    /\ merged' = MergeResults(all_res, args.min_matches)
    /\ pc' = IF args.anonymize THEN "anonymize" ELSE "image"
    /\ UNCHANGED <<args, urls, all_res, graphs, report, idx, parsed>>

\* main, line 285: anonymize(merged.matches)
AnonymizeMerged ==
    /\ pc = "anonymize"
    /\ args.merge
    /\ \E new_names \in NewNames(NamesOf(all_res, merged.matches)) :
          all_res' = Renamed(all_res, merged.matches, new_names)
    /\ pc' = "image"
    /\ UNCHANGED <<args, urls, merged, graphs, report, idx, parsed>>

\* main, line 286: image(merged)
ImageMerged ==
    /\ pc = "image"
    /\ args.merge
    /\ \E edges \in Edges(args, [k \in 1..Len(merged.matches) |->
                                    Deref(all_res, merged.matches[k])], 1) :
          graphs' = Append(graphs, [name |-> merged.name, edges |-> edges])
    /\ pc' = AfterImages(args)
    /\ UNCHANGED <<args, urls, all_res, merged, report, idx, parsed>>

\* main, line 290: anonymize(res.matches), for the result at idx
AnonymizeRes ==
    /\ pc = "anonymize"
    /\ ~args.merge
    /\ LET matches == [j \in 1..Len(all_res[idx].matches) |-> <<idx, j>>]
       IN  \E new_names \in NewNames(NamesOf(all_res, matches)) :
              all_res' = Renamed(all_res, matches, new_names)
    /\ pc' = "image"
    /\ UNCHANGED <<args, urls, merged, graphs, report, idx, parsed>>

\* main, line 291: image(res, i+1), for the result at idx
ImageRes ==
    /\ pc = "image"
    /\ ~args.merge
    /\ \E edges \in Edges(args, all_res[idx].matches, 1) :
          graphs' = Append(graphs, [name |-> <<all_res[idx].name>>, edges |-> edges])
    /\ idx' = idx + 1
    /\ pc' = IF idx < Len(all_res)
             THEN (IF args.anonymize THEN "anonymize" ELSE "image")
             ELSE AfterImages(args)
    /\ UNCHANGED <<args, urls, all_res, merged, report, parsed>>

\* main, line 294: generate_report(all_res); an uncaught TypeError ends the run
GenerateReport ==
    /\ pc = "report"
    /\ report' = GenerateReportOf(all_res)
    /\ pc' = IF report'.error THEN "error" ELSE "done"
    /\ UNCHANGED <<args, urls, all_res, merged, graphs, idx, parsed>>

\* ------------------------------------------------------------- the inputs
\* parser defaults (lines 31-61): --min-percent 90, --min-lines 1,
\* --min-matches 1, no filter, no flag
DefaultArgs ==
    [filter |-> None, filteri |-> None, filterx |-> None, filterxi |-> None,
     min_lines |-> 1, min_percent |-> 90, min_matches |-> 1,
     merge |-> FALSE, anonymize |-> FALSE, show_loops |-> FALSE, report |-> FALSE]

\* What --filter, --filteri, --filterx or --filterxi can be: absent, or a set
FilterOptions == {None} \cup {FilterSet(S) : S \in SUBSET Names}

\* Lists over S of at most n elements
SeqsUpTo(S, n) == UNION {[1..k -> S] : k \in 0..n}

\* A table row's content: the two Files and the line count
Cell(n1, p1, n2, p2, lines) ==
    [first |-> File(n1, p1), second |-> File(n2, p2), lines |-> lines]

\* A fetched page: its title and its rows; the href of row j of page i is
\* its own
Page(title, cells, i) ==
    [name |-> title,
     rows |-> [j \in 1..Len(cells) |->
                 Match(cells[j].first, cells[j].second, cells[j].lines, <<i, j>>)]]

\* Rows that pass the default thresholds
PlainCells == {Cell(n1, 93, n2, 91, 10) : n1, n2 \in Names}

\* The state when main starts fetching
Start(a, u) ==
    /\ args = a
    /\ urls = u
    /\ all_res = <<>>
    /\ parsed = <<>>
    /\ merged = NoResults
    /\ graphs = <<>>
    /\ report = NoReport
    /\ pc = "fetch"
    /\ idx = 1

\* main starting on one or two pages titled by one of titles, with at most
\* total rows in all
StartOnPages(a, cells, total, titles) ==
    \E t \in titles, k1 \in 0..total :
        \E c1 \in [1..k1 -> cells], k2 \in 0..(total - k1) :
            \E c2 \in [1..k2 -> cells] :
                \/ Start(a, <<Page(t[1], c1, 1), Page(t[2], c2, 2)>>)
                \/ k2 = 0 /\ Start(a, <<Page(t[1], c1, 1)>>)

\* ---- every run of main with --report, with or without --merge,
\* ---- --anonymize and --show-loops
Init ==
    \E m, an, sl \in BOOLEAN, mm \in {1, 2} :
        StartOnPages([DefaultArgs EXCEPT !.merge = m, !.anonymize = an, !.show_loops = sl,
                                         !.min_matches = mm, !.report = TRUE],
                     PlainCells, MaxAnonRows, {<<1, 2>>})

Next ==
    \/ GetResults
    \/ Merge
    \/ AnonymizeMerged
    \/ ImageMerged
    \/ AnonymizeRes
    \/ ImageRes
    \/ GenerateReport

Spec == Init /\ [][Next]_vars

\* ---- the filter alone: every combination of the four name filters and
\* ---- thresholds around the values of the rows, on a page of at most one row
MinLinesTried == {1, 2}
MinPercentsTried == {90, 91}
FilterCells ==
    {Cell(n1, p1, n2, p2, l) :
        n1 \in Names, p1 \in {90, 91}, n2 \in Names, p2 \in {90, 91}, l \in {1, 2}}

InitFilter ==
    \E f, fi, fx, fxi \in FilterOptions, ml \in MinLinesTried, mp \in MinPercentsTried,
       c \in SeqsUpTo(FilterCells, 1) :
        Start([DefaultArgs EXCEPT !.filter = f, !.filteri = fi, !.filterx = fx,
                                  !.filterxi = fxi, !.min_lines = ml, !.min_percent = mp],
              <<Page(1, c, 1)>>)

NextFilter == GetResults

SpecFilter == InitFilter /\ [][NextFilter]_vars

\* ---- the merge alone: --merge with every --min-matches up to MaxMinMatches
InitMerge ==
    \E mm \in 1..MaxMinMatches :
        StartOnPages([DefaultArgs EXCEPT !.merge = TRUE, !.min_matches = mm],
                     PlainCells, MaxRows, {<<1, 2>>})

NextMerge == GetResults \/ Merge

SpecMerge == InitMerge /\ [][NextMerge]_vars

\* ---- the report of un-merged results, the pages titled in every way
InitReport ==
    StartOnPages([DefaultArgs EXCEPT !.report = TRUE],
                 PlainCells, MaxRows, ResultNames \X ResultNames)

NextReport == GetResults \/ ImageRes \/ GenerateReport

SpecReport == InitReport /\ [][NextReport]_vars

\* ---- the colours: every --min-percent, and one row of every percentage
Percents == 0..100
ColorCells == {Cell(1, p1, 2, p2, 10) : p1 \in Percents, p2 \in {0, 50}}

InitColor ==
    \E mp \in Percents, c \in ColorCells :
        Start([DefaultArgs EXCEPT !.min_percent = mp], <<Page(1, <<c>>, 1)>>)

NextColor == GetResults \/ ImageRes

SpecColor == InitColor /\ [][NextColor]_vars

\* ================================================================ claims
\* The six rules of the Match Filter, stated one by one.
RuleFilter(a, m) ==
    a.filter.isSet => (m.first.name \in a.filter.names /\ m.second.name \in a.filter.names)
RuleFilteri(a, m) ==
    a.filteri.isSet => (m.first.name \in a.filteri.names \/ m.second.name \in a.filteri.names)
RuleFilterx(a, m) ==
    a.filterx.isSet => ~(m.first.name \in a.filterx.names /\ m.second.name \in a.filterx.names)
RuleFilterxi(a, m) ==
    a.filterxi.isSet => (m.first.name \notin a.filterxi.names /\ m.second.name \notin a.filterxi.names)
RuleLines(a, m) == m.lines > a.min_lines
RulePercent(a, m) ==
    \E p \in {m.first.percent, m.second.percent} :
        /\ p >= m.first.percent
        /\ p >= m.second.percent
        /\ p > a.min_percent
PassesEveryRule(a, m) ==
    /\ RuleFilter(a, m)
    /\ RuleFilteri(a, m)
    /\ RuleFilterx(a, m)
    /\ RuleFilterxi(a, m)
    /\ RuleLines(a, m)
    /\ RulePercent(a, m)

Stricter(a) ==
    {[a EXCEPT !.filterx = FilterSet(a.filterx.names \cup {n})] : n \in Names}
    \cup {[a EXCEPT !.filterxi = FilterSet(a.filterxi.names \cup {n})] : n \in Names}
    \cup {[a EXCEPT !.min_lines = a.min_lines + d] : d \in 1..2}
    \cup {[a EXCEPT !.min_percent = a.min_percent + d] : d \in 1..2}

IncludedSet(a, rows) == {rows[k] : k \in {j \in 1..Len(rows) : Include(a, rows[j])}}

\* C3: under a stricter configuration the included set of a page is a subset
\* of the set the run included.
C3_Monotonic ==
    \A i \in 1..Len(all_res) : \A a2 \in Stricter(args) :
        IncludedSet(a2, urls[i].rows) \subseteq {all_res[i].matches[k] : k \in 1..Len(all_res[i].matches)}

\* C3 witness: a match the run included is excluded under a stricter
\* configuration of each of the four kinds.
C3_Witness ==
    /\ Len(all_res) = 1
    /\ Len(all_res[1].matches) = 1
    /\ args.filterx.isSet /\ args.filterxi.isSet
    /\ \E n \in Names :
          ~Include([args EXCEPT !.filterx = FilterSet(args.filterx.names \cup {n})],
                   all_res[1].matches[1])
    /\ \E n \in Names :
          ~Include([args EXCEPT !.filterxi = FilterSet(args.filterxi.names \cup {n})],
                   all_res[1].matches[1])
    /\ ~Include([args EXCEPT !.min_lines = args.min_lines + 1], all_res[1].matches[1])
    /\ ~Include([args EXCEPT !.min_percent = args.min_percent + 1], all_res[1].matches[1])

\* C5 as claimed: when some name is a member of both filter and filterx, no
\* match is included.
C5_SharedNameIncludesNothing ==
    (args.filter.isSet /\ args.filterx.isSet /\ args.filter.names \cap args.filterx.names # {})
        => \A i \in 1..Len(all_res) : all_res[i].matches = <<>>

\* C5 amended: when every name of filter is also a name of filterx, the run
\* raises no error and no match is included.
C5_FilterWithinFilterx ==
    (args.filter.isSet /\ args.filterx.isSet /\ args.filter.names \subseteq args.filterx.names)
        => /\ pc # "error"
           /\ \A i \in 1..Len(all_res) : all_res[i].matches = <<>>

\* C5 witness: filter is a non-empty part of filterx, and a page whose row
\* names a member of both and passes the thresholds was fetched with nothing
\* kept.
C5_Witness ==
    /\ args.filter.isSet /\ args.filterx.isSet
    /\ args.filter.names # {}
    /\ args.filter.names \subseteq args.filterx.names
    /\ ~args.filteri.isSet /\ ~args.filterxi.isSet
    /\ Len(all_res) = 1
    /\ Len(urls[1].rows) = 1
    /\ urls[1].rows[1].first.name \in args.filter.names
    /\ urls[1].rows[1].second.name \in args.filter.names
    /\ RuleLines(args, urls[1].rows[1]) /\ RulePercent(args, urls[1].rows[1])
    /\ all_res[1].matches = <<>>

\* ---------------------------------------------------------------- merge
\* The places of all Match objects of the fetched results.
AllRefs == UNION {{<<i, j>> : j \in 1..Len(all_res[i].matches)} : i \in 1..Len(all_res)}

\* The order of the result-by-result concatenation.
RefBefore(r1, r2) == r1[1] < r2[1] \/ (r1[1] = r2[1] /\ r1[2] < r2[2])

\* Two matches are of the same unordered pair of names.
SameUnorderedPair(m1, m2) ==
    {m1.first.name, m1.second.name} = {m2.first.name, m2.second.name}

\* How often the unordered pair of the match at ref occurs in results.
PairCount(results, ref) ==
    Cardinality({r \in AllRefs : SameUnorderedPair(Deref(results, r), Deref(results, ref))})

\* results with first and second of the match at ref swapped
Swapped(results, ref) ==
    [results EXCEPT ![ref[1]].matches[ref[2]] =
        [@ EXCEPT !.first = Deref(results, ref).second,
                  !.second = Deref(results, ref).first]]

MergeDone == args.merge /\ pc \notin {"fetch", "merge"}

\* C2: the merged matches are the matches of the concatenation whose unordered
\* pair occurs at least min_matches times, in the concatenation's order, each
\* once; and swapping first and second of any one input match keeps the same
\* places.
C2_MergeKeepsRecurringPairs ==
    MergeDone =>
        /\ \A k1, k2 \in 1..Len(merged.matches) :
              k1 < k2 => RefBefore(merged.matches[k1], merged.matches[k2])
        /\ {merged.matches[k] : k \in 1..Len(merged.matches)}
              = {r \in AllRefs : PairCount(all_res, r) >= args.min_matches}
        /\ \A r \in AllRefs :
              MergeResults(Swapped(all_res, r), args.min_matches).matches = merged.matches

\* C2 witness: two results, one holding a match (A, B) and the other a match
\* (B, A), and both are kept for min_matches = 2.
C2_Witness ==
    /\ MergeDone
    /\ args.min_matches = 2
    /\ Len(all_res) = 2
    /\ Len(all_res[1].matches) = 1 /\ Len(all_res[2].matches) = 1
    /\ all_res[1].matches[1].first.name # all_res[1].matches[1].second.name
    /\ all_res[2].matches[1].first.name = all_res[1].matches[1].second.name
    /\ all_res[2].matches[1].second.name = all_res[1].matches[1].first.name
    /\ merged.matches = <<<<1, 1>>, <<2, 1>>>>

\* Two results each holding one match of the same pair: empty for min_matches = 3.
C2_EmptyForThree ==
    /\ MergeDone
    /\ args.min_matches = 3
    /\ Len(all_res) = 2
    /\ Len(all_res[1].matches) = 1 /\ Len(all_res[2].matches) = 1
    /\ SameUnorderedPair(all_res[1].matches[1], all_res[2].matches[1])
    /\ merged.matches = <<>>

\* --------------------------------------------------------------- report
ReportRan == pc \in {"done", "error"} /\ args.report

\* The places of the matches whose literal (first.name, second.name) is pair.
RefsOfPair(pair) ==
    {r \in AllRefs : <<Deref(all_res, r).first.name, Deref(all_res, r).second.name>> = pair}

LiteralPairs ==
    {<<Deref(all_res, r).first.name, Deref(all_res, r).second.name>> : r \in AllRefs}

\* The (result name, url) lines a complete group of pair holds.
LinesOfPair(pair) ==
    {[name |-> all_res[r[1]].name, url |-> Deref(all_res, r).url] : r \in RefsOfPair(pair)}

\* C6 as claimed: the written report has exactly one group per distinct literal
\* pair, each group holds one line per match of that pair and no other, and
\* the lines of a group are in ascending order of result name.
C6_ReportGroupsByLiteralPair ==
    ReportRan =>
        /\ {report.written[g].pair : g \in 1..Len(report.written)} = LiteralPairs
        /\ \A g1, g2 \in 1..Len(report.written) :
              report.written[g1].pair = report.written[g2].pair => g1 = g2
        /\ \A g \in 1..Len(report.written) :
              LET lines == report.written[g].lines
              IN  /\ {lines[k] : k \in 1..Len(lines)} = LinesOfPair(report.written[g].pair)
                  /\ Len(lines) = Cardinality(RefsOfPair(report.written[g].pair))
                  /\ \A k1, k2 \in 1..Len(lines) : k1 < k2 => lines[k1].name <= lines[k2].name

\* C10 as claimed: generate_report completes and writes every group, whatever
\* the results are.
C10_ReportCompletes ==
    ReportRan =>
        /\ pc = "done"
        /\ ~report.error
        /\ \A pair \in LiteralPairs :
              \E g \in 1..Len(report.written) :
                  /\ report.written[g].pair = pair
                  /\ Len(report.written[g].lines) = Cardinality(RefsOfPair(pair))

\* Two matches of one literal pair come from results of the same name.
TieOnResultName ==
    \E r1, r2 \in AllRefs :
        /\ r1 # r2
        /\ all_res[r1[1]].name = all_res[r2[1]].name
        /\ \E pair \in LiteralPairs : r1 \in RefsOfPair(pair) /\ r2 \in RefsOfPair(pair)

\* The report aborts exactly on such a tie, and without one it is grouped and
\* ordered as C6 says.
ReportAbortsOnlyOnTie ==
    ReportRan =>
        /\ report.error <=> TieOnResultName
        /\ ~TieOnResultName => C6_ReportGroupsByLiteralPair

\* A complete report with a group of two entries, from results named in
\* descending order, written in ascending order of result name.
ReportOfTwoResultsReached ==
    /\ pc = "done" /\ args.report
    /\ Len(all_res) = 2
    /\ all_res[1].name > all_res[2].name
    /\ \E g \in 1..Len(report.written) :
          /\ Len(report.written[g].lines) = 2
          /\ report.written[g].lines[1].name < report.written[g].lines[2].name

\* The names of the results that contribute to pair, one per match, as a
\* sorted list: the names of the concatenation's matches of that pair.
RECURSIVE NamesOfPair(_, _)
NamesOfPair(pair, refs) ==
    IF refs = <<>> THEN <<>>
    ELSE IF Head(refs) \in RefsOfPair(pair)
         THEN <<all_res[Head(refs)[1]].name>> \o NamesOfPair(pair, Tail(refs))
         ELSE NamesOfPair(pair, Tail(refs))

\* (count, sorted names) of x is at least that of y in Python's tuple order
PairRankAtLeast(x, y) ==
    LET cx == Cardinality(RefsOfPair(x))
        cy == Cardinality(RefsOfPair(y))
        nx == SortedNames(NamesOfPair(x, Chain(all_res, 1)))
        ny == SortedNames(NamesOfPair(y, Chain(all_res, 1)))
    IN  cx > cy \/ (cx = cy /\ ~ListLess(nx, ny))

\* C7: of any two consecutive groups of the written report, the first has
\* more entries than the second, or as many and a sorted list of contributing
\* result names that is not smaller.
C7_GroupsDescending ==
    ReportRan =>
        \A g \in 1..(Len(report.written) - 1) :
            PairRankAtLeast(report.written[g].pair, report.written[g + 1].pair)

\* C7 witness: a complete report of two groups in which the group written
\* first has two entries and was the second to enter the dictionary.
C7_Witness ==
    /\ pc = "done" /\ args.report
    /\ Len(report.written) = 2
    /\ Len(report.written[1].lines) = 2
    /\ Len(report.written[2].lines) = 1
    /\ report.pairs[1].pair = report.written[2].pair

\* A complete report of two groups of one entry each, ordered by the tie-break:
\* the group of the result with the larger name first, though it entered last.
C7_TieBreakReached ==
    /\ pc = "done" /\ args.report
    /\ Len(report.written) = 2
    /\ Len(report.written[1].lines) = 1
    /\ Len(report.written[2].lines) = 1
    /\ report.written[1].lines[1].name > report.written[2].lines[1].name
    /\ report.pairs[1].pair = report.written[2].pair

\* ---------------------------------------------------------------- loops
\* The matches image was given for graph k: the merged matches, or those of
\* result k.
ImageInput(k) ==
    IF args.merge
    THEN [n \in 1..Len(merged.matches) |-> Deref(all_res, merged.matches[n])]
    ELSE all_res[k].matches

IsLoop(m) == m.first.name = m.second.name

C8_HiddenLoopReported ==
    /\ pc = "done" /\ args.report /\ ~args.show_loops /\ ~args.merge
    /\ Len(all_res) = 1
    /\ Len(all_res[1].matches) = 2
    /\ IsLoop(all_res[1].matches[1])
    /\ ~IsLoop(all_res[1].matches[2])
    /\ Len(graphs) = 1
    /\ Len(graphs[1].edges) = 1
    /\ \E g \in 1..Len(report.written) :
          report.written[g].pair[1] = report.written[g].pair[2]

\* ------------------------------------------------------------- anonymize
AnonymizeRan == args.anonymize /\ pc \in {"report", "done", "error"}

\* The File objects of the run: first and second of every match.
AllFiles == AllRefs \X {"first", "second"}
OriginalName(f) == Deref(parsed, f[1])[f[2]].name
CurrentName(f) == Deref(all_res, f[1])[f[2]].name

\* C4 as claimed: after main has anonymized, over all matches of all Results
\* of the run every original name has exactly one new name and every new name
\* exactly one original name.
C4_AnonymizeBijection ==
    AnonymizeRan =>
        \A f1, f2 \in AllFiles :
            (OriginalName(f1) = OriginalName(f2)) <=> (CurrentName(f1) = CurrentName(f2))

\* ---------------------------------------------------------------- colours
HighColor == <<"#", "e", "9", "0", "1", "0", "1">>
LowColor == <<"#", "f", "f", "e", "3", "0", "5">>

IsHexDigit(ch) == \E d \in 1..16 : HexDigit[d] = ch
HexValue(ch) == (CHOOSE d \in 1..16 : HexDigit[d] = ch) - 1

\* The value of channel n (1..3) of a colour of six hex digits.
ChannelOf(color, n) == 16 * HexValue(color[2 * n]) + HexValue(color[2 * n + 1])

Between(x, a, b) == (a <= x /\ x <= b) \/ (b <= x /\ x <= a)

\* The row of page i that became the match of url.
RowOfUrl(url) == urls[url[1]].rows[url[2]]

\* C9: for every min_percent other than 100, link_color(1.0) is the high
\* anchor #e90101 and link_color(min_percent/100) the low anchor #ffe305; and
\* the colour of every edge drawn is '#' and six hex digits whose three
\* channels lie between the anchors, its match's percent being above
\* min_percent and at most 100.
C9_LinkColorAnchorsAndRange ==
    /\ args.min_percent # 100 =>
          /\ LinkColor(args.min_percent, 100) = {HighColor}
          /\ LinkColor(args.min_percent, args.min_percent) = {LowColor}
    /\ \A k \in 1..Len(graphs) : \A n \in 1..Len(graphs[k].edges) :
          LET color == graphs[k].edges[n].color
              percent == MatchPercent(RowOfUrl(graphs[k].edges[n].url))
          IN  /\ args.min_percent < percent /\ percent <= 100
              /\ Len(color) = 7
              /\ color[1] = "#"
              /\ \A c \in 2..7 : IsHexDigit(color[c])
              /\ \A c \in 1..3 : Between(ChannelOf(color, c), low[c], high[c])
              /\ percent = 100 => color = HighColor

\* C9 witness: an edge was drawn, for a match strictly between the threshold
\* and 100 percent, in a colour that is neither anchor.
C9_Witness ==
    /\ args.min_percent \in 1..99
    /\ Len(graphs) = 1
    /\ Len(graphs[1].edges) = 1
    /\ MatchPercent(all_res[1].matches[1]) < 100
    /\ graphs[1].edges[1].color # HighColor
    /\ graphs[1].edges[1].color # LowColor

====
